---- MODULE Spec2Model ----
(***************************************************************************)
(* State-machine model of simplemacro.py: the MouseKeyboardMacroGUI        *)
(* recording / playback engine.                                            *)
(*                                                                         *)
(* Threads of control:                                                     *)
(*   - the Tk main loop (control thread): toggle_recording, on_esc,        *)
(*     play_macro, playback_done and the editing handlers run here, one    *)
(*     at a time;                                                          *)
(*   - the pynput mouse listener thread and the pynput keyboard record     *)
(*     listener thread: on_mouse_click, on_press, on_release;              *)
(*   - the playback thread started by play_macro (play_macro_thread).      *)
(*                                                                         *)
(* Time is counted in units of MIN_SLEEP_CHUNK (0.02 s).  A Python value   *)
(* that may be None is a sequence of length at most one.  A Python str     *)
(* that the code takes apart (a key string) is a sequence of characters.   *)
(***************************************************************************)
EXTENDS Integers, Sequences, FiniteSets, TLC

VARIABLES
    is_recording,        \* self.is_recording
    is_playing,          \* self.is_playing
    stop_playback,       \* self.stop_playback
    last_event_time,     \* self.last_event_time (None or a clock reading)
    events,              \* self.events
    mouse_listener,      \* self.mouse_listener is a running listener
    kb_record_listener,  \* self.kb_record_listener is a running listener
    clock,               \* the last value time.time() returned
    ctl,                 \* where the control thread is inside a handler
    cb,                  \* the callback each listener thread is running
    th,                  \* the playback threads
    pending_done,        \* playback_done callbacks queued with root.after
    reply,               \* the dialog the last control request showed ("" for none)
    requests,            \* control requests accepted so far
    stop_len,            \* len(self.events) when stop_recording was last requested
    injected,            \* actions injected by the current playback
    snapshot,            \* the timeline when the current playback was accepted
    hist,                \* what happened since the cancel flag was last set
    file,                \* the macro file save_macro last wrote (None: not written)
    saved,               \* the timeline that file was written from
    captured             \* while recording: the capture time of the last event appended

vars == <<is_recording, is_playing, stop_playback, last_event_time, events,
          mouse_listener, kb_record_listener, clock, ctl, cb, th,
          pending_done, reply, requests, stop_len, injected, snapshot, hist,
          file, saved, captured>>

-----------------------------------------------------------------------------
(* Bounds of the model *)

\* the timeline holds at most this many events
MaxEvents == 2
\* the clock stops advancing here
MaxTime == 1
\* playback thread slots
MaxThreads == 2
\* the largest delay_before an edit may produce
MaxDelay == 12
\* control requests the model accepts in one run
MaxRequests == 3

(* Program constants, in units of 0.02 s *)
MIN_SLEEP_CHUNK == 1
SMALL_WAIT_THRESHOLD == 10

-----------------------------------------------------------------------------
(* Python values *)

None == <<>>
Some(v) == <<v>>
IsNone(o) == o = <<>>
Val(o) == o[1]

\* "Key." and "KeyCode.vk." as character sequences
KeyPrefix == <<"K", "e", "y", ".">>
VkPrefix == <<"K", "e", "y", "C", "o", "d", "e", ".", "v", "k", ".">>

startswith(s, p) == Len(s) >= Len(p) /\ SubSeq(s, 1, Len(p)) = p

\* str(n) of a non-negative int
RECURSIVE DigitsOf(_)
DigitsOf(n) ==
    LET d == <<"0", "1", "2", "3", "4", "5", "6", "7", "8", "9">>
    IN  IF n < 10 THEN <<d[n + 1]>> ELSE DigitsOf(n \div 10) \o <<d[(n % 10) + 1]>>

IsDigit(c) == c \in {"0", "1", "2", "3", "4", "5", "6", "7", "8", "9"}

DigitVal(c) ==
    CASE c = "0" -> 0 [] c = "1" -> 1 [] c = "2" -> 2 [] c = "3" -> 3
      [] c = "4" -> 4 [] c = "5" -> 5 [] c = "6" -> 6 [] c = "7" -> 7
      [] c = "8" -> 8 [] c = "9" -> 9

\* int(s) of a string of digits
RECURSIVE IntOf(_)
IntOf(s) ==
    IF Len(s) = 0 THEN 0
    ELSE 10 * IntOf(SubSeq(s, 1, Len(s) - 1)) + DigitVal(s[Len(s)])

\* s.split(".")[-1]
RECURSIVE LastDotPart(_)
LastDotPart(s) ==
    IF Len(s) = 0 THEN <<>>
    ELSE IF s[Len(s)] = "." THEN <<>>
    ELSE LastDotPart(SubSeq(s, 1, Len(s) - 1)) \o <<s[Len(s)]>>

(* pynput key objects.  keyboard.Key members are [kind |-> "special"],   *)
(* keyboard.KeyCode objects carry char and vk, each possibly None.        *)
SpecialKey(name) == [kind |-> "special", name |-> name, char |-> None, vk |-> None]
CharKey(c) == [kind |-> "keycode", name |-> <<>>, char |-> Some(c), vk |-> None]
VkKey(n) == [kind |-> "keycode", name |-> <<>>, char |-> None, vk |-> Some(n)]

Key_f9 == SpecialKey(<<"f", "9">>)
Key_f10 == SpecialKey(<<"f", "1", "0">>)
Key_esc == SpecialKey(<<"e", "s", "c">>)
Key_shift == SpecialKey(<<"s", "h", "i", "f", "t">>)

\* the members of the keyboard.Key enum the model knows
KeyEnum == {Key_f9, Key_f10, Key_esc, Key_shift}

\* names getattr(keyboard.Key, name) finds on the enum class that are not members
\* of it (mro is a method of every class)
KeyClassAttributes == {<<"m", "r", "o">>}
\* what getattr returns for such a name: an object that is not a key
ClassAttribute(name) == [kind |-> "attribute", name |-> name, char |-> None, vk |-> None]

\* the last resort, str(k), of a KeyCode with neither char nor vk
StrOfKey(k) == <<"<", ">">>

encode_key(k) ==
    IF k.kind = "special" THEN KeyPrefix \o k.name
    ELSE IF ~IsNone(k.char) THEN <<Val(k.char)>>
    ELSE IF ~IsNone(k.vk) THEN VkPrefix \o DigitsOf(Val(k.vk))
    ELSE StrOfKey(k)

decode_key(s) ==
    IF startswith(s, KeyPrefix)
    THEN LET name == SubSeq(s, 5, Len(s))
         IN  IF \E k \in KeyEnum : k.name = name
             THEN Some(CHOOSE k \in KeyEnum : k.name = name)
             ELSE IF name \in KeyClassAttributes THEN Some(ClassAttribute(name))
             ELSE None
    ELSE IF startswith(s, VkPrefix)
    THEN LET part == LastDotPart(s)
         IN  IF Len(part) > 0 /\ \A i \in 1..Len(part) : IsDigit(part[i])
             THEN Some(VkKey(IntOf(part)))
             ELSE None
    ELSE IF Len(s) = 1 THEN Some(CharKey(s[1]))
    ELSE None

\* MacroEvent(type, delay_before, x, y, key)
MacroEvent(type, delay_before, x, y, key) ==
    [type |-> type, delay_before |-> delay_before, x |-> x, y |-> y, key |-> key]

-----------------------------------------------------------------------------
(* Inputs *)

Listeners == {"mouse", "kb"}
Threads == 1..MaxThreads

\* mouse.Button values and the pressed flag delivered to on_click
Buttons == {"left", "right"}
\* what pyautogui.position() returns
Positions == {<<3, 4>>}
\* keys the keyboard delivers while recording
PressedKeys == {Key_f9, Key_f10, Key_esc, CharKey("a")}

\* the text of the speed entry: ok says whether float() accepts it
SpeedTexts ==
    {[ok |-> FALSE, num |-> 0, den |-> 1], [ok |-> TRUE, num |-> 0, den |-> 1],
     [ok |-> TRUE, num |-> 1, den |-> 1], [ok |-> TRUE, num |-> 2, den |-> 1]}
\* the text of the loop count entry: ok says whether int() accepts it
LoopTexts ==
    {[ok |-> FALSE, n |-> 0], [ok |-> TRUE, n |-> 0],
     [ok |-> TRUE, n |-> 1], [ok |-> TRUE, n |-> 2]}

\* listbox.curselection(): the selected rows, which may lie past the timeline
Selections == {{}, {0}, {0, 1}, {1, MaxEvents}}
\* the text of a delay entry after strip()
DelayTexts ==
    {[kind |-> "empty", v |-> 0], [kind |-> "num", v |-> -13],
     [kind |-> "num", v |-> -1], [kind |-> "num", v |-> 0],
     [kind |-> "num", v |-> 11]}

-----------------------------------------------------------------------------
(* Initial state: MouseKeyboardMacroGUI.__init__ *)

IdleCallback ==
    [pc |-> "idle", type |-> "", key |-> None, pos |-> None, now |-> 0, delay |-> 0]

NoThread ==
    [pc |-> "none", speed_num |-> 1, speed_den |-> 1, loops |-> 1, pass |-> 0,
     idx |-> 0, cancel |-> FALSE, remaining |-> 0, ev |-> None]

NoHist ==
    [set_in_chunked |-> FALSE, seen |-> FALSE, slept |-> 0, acts |-> 0, rate |-> 1,
     loops |-> 1, waited |-> 0]

NoReply == ""

Init ==
    /\ is_recording = FALSE
    /\ is_playing = FALSE
    /\ stop_playback = FALSE
    /\ last_event_time = None
    /\ events = <<>>
    /\ mouse_listener = FALSE
    /\ kb_record_listener = FALSE
    /\ clock = 0
    /\ ctl = "idle"
    /\ cb = [l \in Listeners |-> IdleCallback]
    /\ th = [t \in Threads |-> NoThread]
    /\ pending_done = 0
    /\ reply = NoReply
    /\ requests = 0
    /\ stop_len = 0
    /\ injected = <<>>
    /\ snapshot = <<>>
    /\ hist = NoHist
    /\ file = None
    /\ saved = <<>>
    /\ captured = None

ControlVars == <<is_recording, is_playing, stop_playback, last_event_time, events,
                 mouse_listener, kb_record_listener, ctl, th, pending_done,
                 requests, stop_len, injected, snapshot, hist, file, saved, captured>>

\* the dialogs of messagebox.showwarning / showinfo / showerror
BusyPlayback == "Busy: Wait for playback to finish."
BusyRecording == "Busy: Stop recording before playback."
BusyEdit == "Busy: Stop recording or playback first."
NoMacro == "No macro: There are no recorded events."
NoSelection == "No selection"
InvalidDelay == "Invalid delay"
LoadError == "Error: Could not load macro"

\* a control request that returns without changing the engine: it shows a dialog
\* or (NoReply) nothing
Answer(dialog) ==
    /\ reply' = dialog
    /\ UNCHANGED <<ControlVars, clock, cb>>

\* a control request that is accepted
Accepted ==
    /\ requests < MaxRequests
    /\ requests' = requests + 1
    /\ reply' = NoReply

-----------------------------------------------------------------------------
(* Recording: control thread *)

\* start_recording: the listeners are (re)started, the timeline emptied
start_recording ==
    IF is_playing
    THEN Answer(BusyPlayback)
    ELSE /\ is_recording' = TRUE
         /\ last_event_time' = None
         /\ events' = <<>>
         /\ mouse_listener' = TRUE
         /\ kb_record_listener' = TRUE
         /\ captured' = None
         /\ Accepted
         /\ UNCHANGED <<is_playing, stop_playback, clock, ctl, cb, th,
                        pending_done, stop_len, injected, snapshot, hist,
                        file, saved>>

\* stop_recording up to the flag write: the flag is cleared first
stop_recording ==
    IF ~is_recording
    THEN Answer(NoReply)
    ELSE /\ is_recording' = FALSE
         /\ ctl' = "stop_pop"
         /\ stop_len' = Len(events)
         /\ captured' = None
         /\ Accepted
         /\ UNCHANGED <<is_playing, stop_playback, last_event_time, events,
                        mouse_listener, kb_record_listener, clock, cb, th,
                        pending_done, injected, snapshot, hist, file, saved>>

\* (mutant) stop_recording without the pop
DropNone(evs) == evs

\* the timeline after stop_recording's `if self.events: self.events.pop()`
DropLast(evs) == IF evs # <<>> THEN SubSeq(evs, 1, Len(evs) - 1) ELSE evs

\* the rest of stop_recording: the listeners are stopped, the last event dropped
stop_recording_pop ==
    /\ ctl = "stop_pop"
    /\ mouse_listener' = FALSE
    /\ kb_record_listener' = FALSE
    /\ events' = DropLast(events)
    /\ ctl' = "idle"
    /\ stop_len' = 0
    /\ UNCHANGED <<is_recording, is_playing, stop_playback, last_event_time,
                   clock, cb, th, pending_done, reply, requests, injected,
                   snapshot, hist, file, saved, captured>>

toggle_recording ==
    /\ ctl = "idle"
    /\ IF is_playing
       THEN Answer(NoReply)
       ELSE IF ~is_recording THEN start_recording ELSE stop_recording

-----------------------------------------------------------------------------
(* Recording: listener threads *)

ListenerVars == <<is_recording, is_playing, stop_playback, mouse_listener,
                  kb_record_listener, ctl, th, pending_done, reply, requests,
                  stop_len, injected, snapshot, hist, file, saved>>

\* (mutant) on_press and on_release leave out no key
NoHotkey(key) == FALSE

\* the control hotkeys on_press and on_release leave out
IsHotkey(key) == key \in {Key_f9, Key_f10, Key_esc}

\* time.time(): a reading no earlier than the last one
Readings == {t \in {clock, clock + 1} : t <= MaxTime}

\* on_mouse_click up to get_delay's now = time.time(): the flag and the button
\* are checked, the pointer position and the clock are read
on_mouse_click(button, pressed) ==
    /\ mouse_listener
    /\ cb["mouse"].pc = "idle"
    /\ IF ~is_recording \/ button # "left" \/ ~pressed
       THEN UNCHANGED vars
       ELSE /\ \E now \in Readings, p \in Positions :
                  /\ clock' = now
                  /\ cb' = [cb EXCEPT !["mouse"] =
                              [IdleCallback EXCEPT !.pc = "now", !.type = "mouse_click",
                                                   !.pos = Some(p), !.now = now]]
            /\ UNCHANGED <<ListenerVars, last_event_time, events, captured>>

\* on_press / on_release and record_key_event up to get_delay's now = time.time():
\* the flag is checked (twice), the control hotkeys are left out, the clock is read
on_key(ev_type, key) ==
    /\ kb_record_listener
    /\ cb["kb"].pc = "idle"
    /\ IF ~is_recording \/ IsHotkey(key)
       THEN UNCHANGED vars
       ELSE /\ \E now \in Readings :
                  /\ clock' = now
                  /\ cb' = [cb EXCEPT !["kb"] =
                              [IdleCallback EXCEPT !.pc = "now", !.type = ev_type,
                                                   !.key = Some(key), !.now = now]]
            /\ UNCHANGED <<ListenerVars, last_event_time, events, captured>>

on_press(key) == on_key("key_down", key)

on_release(key) == on_key("key_up", key)

\* the delay get_delay computes from the last_event_time it reads
DelaySince(last, now) == IF IsNone(last) THEN 0 ELSE now - Val(last)

\* get_delay: last_event_time is read and delay_before computed
get_delay_read(l) ==
    /\ cb[l].pc = "now"
    /\ cb' = [cb EXCEPT ![l].pc = "read",
                        ![l].delay = DelaySince(last_event_time, cb[l].now)]
    /\ UNCHANGED <<ListenerVars, last_event_time, events, clock, captured>>

\* get_delay: self.last_event_time = now
get_delay_write(l) ==
    /\ cb[l].pc = "read"
    /\ last_event_time' = Some(cb[l].now)
    /\ cb' = [cb EXCEPT ![l].pc = "written"]
    /\ UNCHANGED <<ListenerVars, events, clock, captured>>

\* the MacroEvent a callback builds
CapturedEvent(c) ==
    IF c.type = "mouse_click"
    THEN MacroEvent("mouse_click", c.delay, Some(Val(c.pos)[1]), Some(Val(c.pos)[2]), None)
    ELSE MacroEvent(c.type, c.delay, None, None, Some(encode_key(Val(c.key))))

\* self.events.append(ev), the end of on_mouse_click and of record_key_event
append_event(l) ==
    /\ cb[l].pc = "written"
    /\ Len(events) < MaxEvents
    /\ events' = Append(events, CapturedEvent(cb[l]))
    /\ cb' = [cb EXCEPT ![l] = IdleCallback]
    /\ captured' = IF is_recording THEN Some(cb[l].now) ELSE captured
    /\ UNCHANGED <<ListenerVars, last_event_time, clock>>

-----------------------------------------------------------------------------
(* Playback: control thread *)

\* a free thread slot for threading.Thread(...).start()
FreeThread == CHOOSE t \in Threads : th[t].pc = "none" /\ \A u \in Threads : th[u].pc = "none" => t <= u

\* (mutant) play_macro without its check of is_recording
play_while_recording == FALSE

\* play_macro's `if self.is_recording: ... return`
play_refused_recording == is_recording

\* (mutant) play_macro without its check of is_playing
play_while_playing == FALSE

\* play_macro's `if self.is_playing: return`
play_refused_playing == is_playing

\* (mutant) play_macro without its check of the timeline
play_when_empty == FALSE

\* play_macro's `if not self.events: ... return`
play_refused_empty == events = <<>>

play_macro ==
    /\ ctl = "idle"
    /\ IF play_refused_empty
       THEN Answer(NoMacro)
       ELSE IF play_refused_recording
       THEN Answer(BusyRecording)
       ELSE IF play_refused_playing
       THEN Answer(NoReply)
       ELSE /\ \E t \in Threads : th[t].pc = "none"
            /\ is_playing' = TRUE
            /\ stop_playback' = FALSE
            /\ th' = [th EXCEPT ![FreeThread] = [NoThread EXCEPT !.pc = "start"]]
            /\ Accepted
            /\ injected' = <<>>
            /\ snapshot' = events
            /\ hist' = NoHist
            /\ UNCHANGED <<is_recording, last_event_time, events, mouse_listener,
                           kb_record_listener, clock, ctl, cb, pending_done,
                           stop_len, file, saved, captured>>

\* the playback thread is inside a chunked wait
InChunkedWait == \E t \in Threads : th[t].pc \in {"chunk_check", "chunk_sleep"}

\* (mutant) on_esc sets the cancel flag in every state
cancel_applies_always == TRUE

\* on_esc's `if self.is_playing:` before it sets stop_playback
cancel_applies == is_playing

\* on_esc: Esc cancels recording or playback
on_esc ==
    /\ ctl = "idle"
    /\ IF cancel_applies
       THEN IF stop_playback /\ ~is_recording
            THEN Answer(NoReply)
            ELSE /\ stop_playback' = TRUE
                 /\ hist' = IF stop_playback THEN hist
                            ELSE [hist EXCEPT !.set_in_chunked = InChunkedWait]
                 /\ IF is_recording
                    THEN /\ is_recording' = FALSE
                         /\ ctl' = "stop_pop"
                         /\ stop_len' = Len(events)
                    ELSE UNCHANGED <<is_recording, ctl, stop_len>>
                 /\ captured' = IF is_recording THEN None ELSE captured
                 /\ Accepted
                 /\ UNCHANGED <<is_playing, last_event_time, events, mouse_listener,
                                kb_record_listener, clock, cb, th, pending_done,
                                injected, snapshot, file, saved>>
       ELSE stop_recording

\* playback_done, queued by the playback thread with root.after(0, ...)
playback_done ==
    /\ ctl = "idle"
    /\ pending_done > 0
    /\ pending_done' = pending_done - 1
    /\ is_playing' = FALSE
    /\ stop_playback' = FALSE
    /\ injected' = <<>>
    /\ snapshot' = <<>>
    /\ hist' = NoHist
    /\ UNCHANGED <<is_recording, last_event_time, events, mouse_listener,
                   kb_record_listener, clock, ctl, cb, th, reply, requests,
                   stop_len, file, saved, captured>>

-----------------------------------------------------------------------------
(* Playback: play_macro_thread *)

ThreadVars == <<is_recording, is_playing, stop_playback, last_event_time, events,
                mouse_listener, kb_record_listener, clock, ctl, cb, reply,
                requests, stop_len, snapshot, file, saved, captured>>

\* `speed <= 0` of the float num/den, where 1/0 is inf, -1/0 is -inf and 0/0 is
\* nan, which compares False with every number
SpeedNotPositive(text) == text.num <= 0 /\ (text.den # 0 \/ text.num < 0)

\* float(self.speed_var.get()), 1.0 when float() raises or the value is <= 0
SpeedOf(text) ==
    IF text.ok /\ ~SpeedNotPositive(text) THEN [num |-> text.num, den |-> text.den]
    ELSE [num |-> 1, den |-> 1]

\* int(self.loop_var.get()), 1 when it is not a number or not positive
LoopsOf(text) == IF text.ok /\ text.n > 0 THEN text.n ELSE 1

\* the head of play_macro_thread with st and lt in the two entries: the parameters
\* are read, an empty timeline ends it
thread_read(t, st, lt) ==
    /\ th[t].pc = "start"
    /\ th' = [th EXCEPT ![t].speed_num = SpeedOf(st).num,
                        ![t].speed_den = SpeedOf(st).den,
                        ![t].loops = LoopsOf(lt),
                        ![t].pc = IF events = <<>> THEN "post" ELSE "iter"]
    /\ hist' = [hist EXCEPT !.rate = SpeedOf(st).num, !.loops = LoopsOf(lt)]
    /\ UNCHANGED <<ThreadVars, pending_done, injected>>

thread_start(t) == \E st \in SpeedTexts, lt \in LoopTexts : thread_read(t, st, lt)

\* `for ev in self.events`: the list iterator's next item, or the end of the pass
thread_next(t) ==
    /\ th[t].pc = "iter"
    /\ IF th[t].idx < Len(events)
       THEN th' = [th EXCEPT ![t].ev = Some(events[th[t].idx + 1]),
                             ![t].idx = th[t].idx + 1,
                             ![t].pc = "check1"]
       ELSE th' = [th EXCEPT ![t].ev = None, ![t].pc = "outer_check"]
    /\ hist' = [hist EXCEPT !.waited = 0]
    /\ UNCHANGED <<ThreadVars, pending_done, injected>>

\* total_wait = ev.delay_before / speed, as a multiple of 0.02 s / speed_num
TotalWait(ev, speed_den) ==
    IF ev.delay_before > 0 THEN ev.delay_before * speed_den ELSE 0

\* the flag check that opens an iteration, and the choice of how to wait
thread_check1(t) ==
    /\ th[t].pc = "check1"
    /\ IF stop_playback
       THEN /\ th' = [th EXCEPT ![t].cancel = TRUE, ![t].pc = "outer_check"]
            /\ hist' = [hist EXCEPT !.seen = TRUE]
       ELSE LET w == TotalWait(Val(th[t].ev), th[t].speed_den)
            IN  /\ th' = [th EXCEPT ![t].remaining = w,
                                    ![t].pc = IF w > 0
                                              THEN IF w <= SMALL_WAIT_THRESHOLD * th[t].speed_num
                                                   THEN "sleep" ELSE "chunk_check"
                                              ELSE "check2"]
                /\ UNCHANGED hist
    /\ UNCHANGED <<ThreadVars, pending_done, injected>>

\* time.sleep(total_wait) of a short wait
thread_sleep(t) ==
    /\ th[t].pc = "sleep"
    /\ th' = [th EXCEPT ![t].remaining = 0, ![t].pc = "check2"]
    /\ hist' = [hist EXCEPT !.waited = hist.waited + th[t].remaining,
                            !.slept = IF stop_playback
                                      THEN hist.slept + th[t].remaining
                                      ELSE hist.slept]
    /\ UNCHANGED <<ThreadVars, pending_done, injected>>

\* (mutant) the chunk loop does not look at the flag
chunk_never_sees_cancel == FALSE

\* the chunk loop's `if self.stop_playback` sees the flag
chunk_sees_cancel == stop_playback

\* `while remaining > 0` and the flag check before each chunk
thread_chunk_check(t) ==
    /\ th[t].pc = "chunk_check"
    /\ IF th[t].remaining > 0
       THEN IF chunk_sees_cancel
            THEN /\ th' = [th EXCEPT ![t].cancel = TRUE, ![t].pc = "outer_check"]
                 /\ hist' = [hist EXCEPT !.seen = TRUE]
            ELSE /\ th' = [th EXCEPT ![t].pc = "chunk_sleep"]
                 /\ UNCHANGED hist
       ELSE /\ th' = [th EXCEPT ![t].pc = "check2"]
            /\ UNCHANGED hist
    /\ UNCHANGED <<ThreadVars, pending_done, injected>>

\* chunk = MIN_SLEEP_CHUNK if remaining > MIN_SLEEP_CHUNK else remaining
ChunkOf(remaining, speed_num) ==
    IF remaining > MIN_SLEEP_CHUNK * speed_num
    THEN MIN_SLEEP_CHUNK * speed_num ELSE remaining

\* time.sleep(chunk); remaining -= chunk
thread_chunk_sleep(t) ==
    /\ th[t].pc = "chunk_sleep"
    /\ LET chunk == ChunkOf(th[t].remaining, th[t].speed_num)
       IN  /\ th' = [th EXCEPT ![t].remaining = th[t].remaining - chunk,
                               ![t].pc = "chunk_check"]
           /\ hist' = [hist EXCEPT !.waited = hist.waited + chunk,
                                   !.slept = IF stop_playback
                                             THEN hist.slept + chunk
                                             ELSE hist.slept]
    /\ UNCHANGED <<ThreadVars, pending_done, injected>>

\* (mutant) the check before the action looks at the local cancel only
pre_action_breaks_on_cancel_only(t) == th[t].cancel

\* `if self.stop_playback or cancel` before the action
pre_action_breaks(t) == stop_playback \/ th[t].cancel

\* `if self.stop_playback or cancel: break` before the action
thread_check2(t) ==
    /\ th[t].pc = "check2"
    /\ IF pre_action_breaks(t)
       THEN /\ th' = [th EXCEPT ![t].pc = "outer_check"]
            /\ hist' = [hist EXCEPT !.seen = TRUE]
       ELSE /\ th' = [th EXCEPT ![t].pc = "exec"]
            /\ UNCHANGED hist
    /\ UNCHANGED <<ThreadVars, pending_done, injected>>

\* what executing an event injects: a sequence of at most one action
ActionOf(ev) ==
    IF ev.type = "mouse_click" /\ ~IsNone(ev.x) /\ ~IsNone(ev.y)
    THEN <<[act |-> "click", x |-> ev.x, y |-> ev.y, key |-> None]>>
    ELSE IF ev.type \in {"key_down", "key_up"} /\ ~IsNone(ev.key)
    THEN LET k == decode_key(Val(ev.key))
         IN  IF ~IsNone(k)
             THEN <<[act |-> IF ev.type = "key_down" THEN "press" ELSE "release",
                     x |-> None, y |-> None, key |-> k]>>
             ELSE <<>>
    ELSE <<>>

\* kb_controller.press / release accepts k: it raises for what is not a key
Injectable(acts) ==
    \A i \in 1..Len(acts) :
        IF IsNone(acts[i].key) THEN TRUE
        ELSE Val(acts[i].key).kind \in {"special", "keycode"}

\* the event's action: pyautogui.moveTo and click, or kb_controller press / release
thread_exec(t) ==
    /\ th[t].pc = "exec"
    /\ Injectable(ActionOf(Val(th[t].ev)))
    /\ injected' = injected \o ActionOf(Val(th[t].ev))
    /\ hist' = IF stop_playback /\ ActionOf(Val(th[t].ev)) # <<>>
               THEN [hist EXCEPT !.acts = hist.acts + 1]
               ELSE hist
    /\ th' = [th EXCEPT ![t].pc = "iter"]
    /\ UNCHANGED <<ThreadVars, pending_done>>

\* pyautogui.moveTo / click or kb_controller.press / release raises: nothing in
\* play_macro_thread catches it, so the thread ends there and playback_done is
\* never queued
thread_exec_fails(t) ==
    /\ th[t].pc = "exec"
    /\ ActionOf(Val(th[t].ev)) # <<>>
    /\ th' = [th EXCEPT ![t] = NoThread]
    /\ UNCHANGED <<ThreadVars, pending_done, injected, hist>>

\* (mutant) the outer loop breaks on the local cancel only
outer_breaks_on_cancel_only(t) == th[t].cancel

\* the outer loop's `if cancel or self.stop_playback: break`
outer_breaks(t) == th[t].cancel \/ stop_playback

\* the end of a pass: the outer loop breaks, repeats or runs out
thread_outer_check(t) ==
    /\ th[t].pc = "outer_check"
    /\ IF outer_breaks(t)
       THEN /\ th' = [th EXCEPT ![t].pc = "post"]
            /\ hist' = [hist EXCEPT !.seen = TRUE]
       ELSE /\ IF th[t].pass + 1 < th[t].loops
               THEN th' = [th EXCEPT ![t].pass = th[t].pass + 1, ![t].idx = 0,
                                     ![t].pc = "iter"]
               ELSE th' = [th EXCEPT ![t].pc = "post"]
            /\ UNCHANGED hist
    /\ UNCHANGED <<ThreadVars, pending_done, injected>>

\* Tk's queue of playback_done callbacks after self.root.after(0, self.playback_done)
after_playback_done(queued) == queued + 1

\* self.root.after(0, self.playback_done): the thread's last statement
thread_post(t) ==
    /\ th[t].pc = "post"
    /\ pending_done' = after_playback_done(pending_done)
    /\ th' = [th EXCEPT ![t] = NoThread]
    /\ UNCHANGED <<ThreadVars, injected, hist>>

-----------------------------------------------------------------------------
(* Editing *)

\* (mutant) the editing handlers check is_recording only
busy_recording_only == is_recording

\* `if self.is_recording or self.is_playing` at the head of every editing handler
busy == is_recording \/ is_playing

EditVars == <<is_recording, is_playing, stop_playback, last_event_time,
              mouse_listener, kb_record_listener, clock, ctl, cb, th,
              pending_done, stop_len, injected, snapshot, hist, file, saved, captured>>

clear_events ==
    /\ ctl = "idle"
    /\ IF busy
       THEN Answer(BusyEdit)
       ELSE /\ events' = <<>>
            /\ Accepted
            /\ UNCHANGED EditVars

InRange(index, evs) == 0 <= index /\ index < Len(evs)

\* del evs[index], index counted from 0
DelAt(evs, index) == SubSeq(evs, 1, index) \o SubSeq(evs, index + 2, Len(evs))

Max(S) == CHOOSE m \in S : \A n \in S : n <= m
Min(S) == CHOOSE m \in S : \A n \in S : m <= n

\* (mutant) the rows are deleted from the first selected row on
RECURSIVE DeleteForward(_, _)
DeleteForward(evs, sel) ==
    IF sel = {} THEN evs
    ELSE LET index == Min(sel)
         IN  DeleteForward(IF InRange(index, evs) THEN DelAt(evs, index) ELSE evs,
                           sel \ {index})

\* `for index in reversed(selection): if 0 <= index < len(self.events): del ...`
RECURSIVE DeleteReversed(_, _)
DeleteReversed(evs, sel) ==
    IF sel = {} THEN evs
    ELSE LET index == Max(sel)
         IN  DeleteReversed(IF InRange(index, evs) THEN DelAt(evs, index) ELSE evs,
                            sel \ {index})

\* delete_selected once the handler has read the selection
delete_rows(selection) ==
    IF selection = {}
    THEN Answer(NoSelection)
    ELSE /\ events' = DeleteReversed(events, selection)
         /\ Accepted
         /\ UNCHANGED EditVars

delete_selected ==
    /\ ctl = "idle"
    /\ IF busy
       THEN Answer(BusyEdit)
       ELSE \E selection \in Selections : delete_rows(selection)

\* update_selected_delay once the handler has read the delay entry
set_delay(index, text) ==
    IF text.kind # "num" \/ text.v < 0
    THEN Answer(InvalidDelay)
    ELSE /\ events' = [events EXCEPT ![index + 1].delay_before = text.v]
         /\ Accepted
         /\ UNCHANGED EditVars

\* update_selected_delay once the handler has read the selection
update_row(selection) ==
    IF selection = {}
    THEN Answer(NoSelection)
    ELSE IF ~InRange(Min(selection), events)
    THEN Answer(NoReply)
    ELSE \E text \in DelayTexts : set_delay(Min(selection), text)

update_selected_delay ==
    /\ ctl = "idle"
    /\ IF busy
       THEN Answer(BusyEdit)
       ELSE \E selection \in Selections : update_row(selection)

\* new_val = delay_before + delta, 0.0 when negative
AddClamped(delay_before, delta) ==
    IF delay_before + delta < 0 THEN 0 ELSE delay_before + delta

\* the timeline after add_delay_to_selected's loop over the selection
AddDelay(evs, selection, delta) ==
    [i \in 1..Len(evs) |->
        IF (i - 1) \in selection
        THEN [evs[i] EXCEPT !.delay_before = AddClamped(evs[i].delay_before, delta)]
        ELSE evs[i]]

\* add_delay_to_selected once the handler has read the selection and the entry
add_delay(selection, text) ==
    IF selection = {}
    THEN Answer(NoSelection)
    ELSE IF text.kind # "num"
    THEN Answer(InvalidDelay)
    ELSE /\ \A i \in 1..Len(events) :
                AddDelay(events, selection, text.v)[i].delay_before <= MaxDelay
         /\ events' = AddDelay(events, selection, text.v)
         /\ Accepted
         /\ UNCHANGED EditVars

add_delay_to_selected ==
    /\ ctl = "idle"
    /\ IF busy
       THEN Answer(BusyEdit)
       ELSE \E selection \in Selections, text \in DelayTexts :
               add_delay(selection, text)

-----------------------------------------------------------------------------
(* Loading *)

(* JSON values of a macro file.  An item of "events" is a dict (or not),   *)
(* each of its keys absent (None) or holding a number, a string or null.   *)
JNum(n) == [t |-> "num", n |-> n, s |-> <<>>]
JStr(s) == [t |-> "str", n |-> 0, s |-> s]
JNull == [t |-> "null", n |-> 0, s |-> <<>>]

Item(type, delay_before, x, y, key) ==
    [dict |-> TRUE, type |-> type, delay_before |-> delay_before, x |-> x, y |-> y,
     key |-> key]
NotADict == [dict |-> FALSE, type |-> None, delay_before |-> None, x |-> None,
             y |-> None, key |-> None]

\* a string Python's int() accepts: digits, with or without a minus sign
IsIntString(s) ==
    LET body == IF Len(s) > 0 /\ s[1] = "-" THEN SubSeq(s, 2, Len(s)) ELSE s
    IN  Len(body) > 0 /\ \A i \in 1..Len(body) : IsDigit(body[i])

IntOfSigned(s) ==
    IF s[1] = "-" THEN 0 - IntOf(SubSeq(s, 2, Len(s))) ELSE IntOf(s)

\* float(v) and int(v): None when Python raises
ToNumber(v) ==
    IF v.t = "num" THEN Some(v.n)
    ELSE IF v.t = "str" /\ IsIntString(v.s) THEN Some(IntOfSigned(v.s))
    ELSE None

\* str(v)
ToStr(v) ==
    IF v.t = "str" THEN v.s
    ELSE IF v.t = "num"
    THEN (IF v.n < 0 THEN <<"-">> \o DigitsOf(0 - v.n) ELSE DigitsOf(v.n))
    ELSE <<"N", "o", "n", "e">>

\* one pass of load_macro's loop body: what the item adds to loaded_events
\* ([ok |-> FALSE] when it raises)
ParseItem(item) ==
    LET fail == [ok |-> FALSE, evs |-> <<>>]
        ev_type == IF IsNone(item.type) THEN "mouse_click" ELSE Val(item.type)
        raw == IF IsNone(item.delay_before) THEN Some(0) ELSE ToNumber(Val(item.delay_before))
        delay == IF Val(raw) < 0 THEN 0 ELSE Val(raw)
    IN  IF ~item.dict THEN fail
        ELSE IF IsNone(raw) THEN fail
        ELSE IF ev_type = "mouse_click"
        THEN IF IsNone(item.x) \/ IsNone(item.y) THEN fail
             ELSE IF IsNone(ToNumber(Val(item.x))) \/ IsNone(ToNumber(Val(item.y))) THEN fail
             ELSE [ok |-> TRUE,
                   evs |-> <<MacroEvent("mouse_click", delay, ToNumber(Val(item.x)),
                                        ToNumber(Val(item.y)), None)>>]
        ELSE IF ev_type \in {"key_down", "key_up"}
        THEN IF IsNone(item.key) THEN fail
             ELSE [ok |-> TRUE,
                   evs |-> <<MacroEvent(ev_type, delay, None, None,
                                        Some(ToStr(Val(item.key))))>>]
        ELSE [ok |-> TRUE, evs |-> <<>>]

\* (mutant) load_macro's loop leaving out the items that raise
RECURSIVE ParseItemsSkipping(_)
ParseItemsSkipping(items) ==
    IF items = <<>> THEN [ok |-> TRUE, evs |-> <<>>]
    ELSE [ok |-> TRUE,
          evs |-> ParseItem(Head(items)).evs \o ParseItemsSkipping(Tail(items)).evs]

\* load_macro's loop over events_data: loaded_events, or a failure
RECURSIVE ParseItems(_)
ParseItems(items) ==
    IF items = <<>> THEN [ok |-> TRUE, evs |-> <<>>]
    ELSE LET first == ParseItem(Head(items))
             rest == ParseItems(Tail(items))
         IN  IF first.ok /\ rest.ok
             THEN [ok |-> TRUE, evs |-> first.evs \o rest.evs]
             ELSE [ok |-> FALSE, evs |-> <<>>]

\* data.get("events") of a document: None when it is not a list
ParseDoc(doc) ==
    IF IsNone(doc.events) THEN [ok |-> FALSE, evs |-> <<>>]
    ELSE ParseItems(Val(doc.events))

\* the macro files the operator may pick
Docs ==
    {[events |-> None],
     [events |-> Some(<<Item(Some("mouse_click"), Some(JNum(11)), Some(JNum(3)),
                             Some(JNum(4)), None),
                        Item(Some("key_down"), Some(JNum(0)), None, None,
                             Some(JStr(<<"a">>)))>>)]}

\* load_macro once the file the operator picked has been read
load_file(doc) ==
    IF ~ParseDoc(doc).ok
    THEN Answer(LoadError)
    ELSE /\ Len(ParseDoc(doc).evs) <= MaxEvents
         /\ events' = ParseDoc(doc).evs
         /\ Accepted
         /\ UNCHANGED EditVars

\* the file save_macro wrote, when there is one
SavedDocs == IF IsNone(file) THEN {} ELSE {Val(file)}

\* load_macro, the operator picking one of docs in the file dialog
load_from(docs) ==
    /\ ctl = "idle"
    /\ IF busy
       THEN Answer(BusyEdit)
       ELSE \E doc \in docs : load_file(doc)

load_macro == load_from(Docs \cup SavedDocs)

-----------------------------------------------------------------------------
(* Saving *)

NothingToSave == "No macro: There is nothing to save."
SaveError == "Error: Could not save macro"
Saved == "Saved"

\* the item save_macro writes for an event: x and y for a mouse_click only, key
\* for a key event only; a field that is None is written as null
SaveItem(ev) ==
    Item(Some(ev.type), Some(JNum(ev.delay_before)),
         IF ev.type = "mouse_click"
         THEN Some(IF IsNone(ev.x) THEN JNull ELSE JNum(Val(ev.x))) ELSE None,
         IF ev.type = "mouse_click"
         THEN Some(IF IsNone(ev.y) THEN JNull ELSE JNum(Val(ev.y))) ELSE None,
         IF ev.type \in {"key_down", "key_up"}
         THEN Some(IF IsNone(ev.key) THEN JNull ELSE JStr(Val(ev.key))) ELSE None)

\* the document save_macro writes: {"version": 3, "events": [...]}
SaveDoc(evs) == [events |-> Some([i \in 1..Len(evs) |-> SaveItem(evs[i])])]

\* save_macro: no check of the engine state; open() may fail, and then the file is
\* not written
save_macro ==
    /\ ctl = "idle"
    /\ IF events = <<>>
       THEN Answer(NothingToSave)
       ELSE \/ /\ file' = Some(SaveDoc(events))
               /\ saved' = events
               /\ requests < MaxRequests
               /\ requests' = requests + 1
               /\ reply' = Saved
               /\ UNCHANGED <<is_recording, is_playing, stop_playback,
                              last_event_time, events, mouse_listener,
                              kb_record_listener, clock, ctl, cb, th, pending_done,
                              stop_len, injected, snapshot, hist, captured>>
            \/ Answer(SaveError)

-----------------------------------------------------------------------------
(* Macro files and timelines of the file operations *)

\* macro files found on disk: well formed, with an item of unknown type, with
\* numbers written as strings, and malformed in each way load_macro rejects
FileDocs ==
    {[events |-> None],
     [events |-> Some(<<Item(Some("mouse_click"), Some(JNum(11)), Some(JNum(3)),
                             Some(JNum(4)), None),
                        Item(Some("key_down"), Some(JNum(0)), None, None,
                             Some(JStr(<<"a">>)))>>)],
     [events |-> Some(<<Item(Some("key_up"), Some(JNum(-1)), None, None,
                             Some(JStr(<<"a">>))),
                        Item(Some("scroll"), Some(JNum(0)), None, None, None)>>)],
     [events |-> Some(<<Item(Some("scroll"), None, Some(JStr(<<"x">>)), None, Some(JNull)),
                        Item(None, None, Some(JStr(<<"3">>)), Some(JStr(<<"4">>)),
                             None)>>)],
     [events |-> Some(<<Item(Some("key_down"), Some(JNum(0)), None, None,
                             Some(JStr(<<"a">>))),
                        Item(Some("scroll"), Some(JStr(<<"x">>)), None, None, None)>>)],
     [events |-> Some(<<Item(Some("mouse_click"), Some(JNum(0)), Some(JNum(3)),
                             Some(JNum(4)), None),
                        Item(Some("mouse_click"), Some(JNum(0)), Some(JNum(3)),
                             None, None)>>)],
     [events |-> Some(<<Item(Some("key_down"), Some(JNum(0)), None, None, None)>>)],
     [events |-> Some(<<Item(Some("mouse_click"), Some(JNull), Some(JNum(3)),
                             Some(JNum(4)), None)>>)],
     [events |-> Some(<<Item(Some("mouse_click"), Some(JNum(0)), Some(JStr(<<"x">>)),
                             Some(JNum(4)), None)>>)],
     [events |-> Some(<<NotADict>>)]}

\* events a recording session leaves in the timeline: a click or a key event of a
\* printable or a special key, its delay what get_delay computed
RecordedEvents ==
    {MacroEvent("mouse_click", d, Some(3), Some(4), None) : d \in {-1, 0, 11}}
    \cup {MacroEvent(t, d, None, None, Some(encode_key(k))) :
             t \in {"key_down", "key_up"}, d \in {-1, 0},
             k \in {CharKey("a"), Key_shift}}

\* the timelines the file operations start from
RecordedTimelines ==
    {<<>>} \cup {<<e>> : e \in RecordedEvents}
           \cup {<<e1, e2>> : e1 \in {MacroEvent("mouse_click", 0, Some(3), Some(4), None)},
                               e2 \in RecordedEvents}

load_picked == load_from(FileDocs \cup SavedDocs)

\* Idle, with a timeline recorded earlier
FileInit ==
    /\ is_recording = FALSE
    /\ is_playing = FALSE
    /\ stop_playback = FALSE
    /\ last_event_time = None
    /\ events \in RecordedTimelines
    /\ mouse_listener = FALSE
    /\ kb_record_listener = FALSE
    /\ clock = 0
    /\ ctl = "idle"
    /\ cb = [l \in Listeners |-> IdleCallback]
    /\ th = [t \in Threads |-> NoThread]
    /\ pending_done = 0
    /\ reply = NoReply
    /\ requests = 0
    /\ stop_len = 0
    /\ injected = <<>>
    /\ snapshot = <<>>
    /\ hist = NoHist
    /\ file = None
    /\ saved = <<>>
    /\ captured = None

FileNext ==
    \/ save_macro
    \/ load_picked
    \/ clear_events
    \/ delete_selected

FileSpec == FileInit /\ [][FileNext]_vars

-----------------------------------------------------------------------------
(* Playback of a loaded timeline *)

\* the texts of the speed entry: also a negative number, 1.1, nan and inf
PlaySpeedTexts ==
    SpeedTexts \cup {[ok |-> TRUE, num |-> -1, den |-> 1],
                     [ok |-> TRUE, num |-> 11, den |-> 10],
                     [ok |-> TRUE, num |-> 0, den |-> 0],
                     [ok |-> TRUE, num |-> 1, den |-> 0]}

\* key strings of a macro file that encode_key did not write: "ab" and "Key.mro"
UnknownKeyString == <<"a", "b">>
ClassAttributeKeyString == KeyPrefix \o <<"m", "r", "o">>

\* events of a loaded macro file
PlayedEvents ==
    {MacroEvent("mouse_click", d, Some(3), Some(4), None) : d \in {11, MaxDelay}}
    \cup {MacroEvent("key_down", 1, None, None, Some(<<"a">>)),
          MacroEvent("key_down", 11, None, None, Some(UnknownKeyString)),
          MacroEvent("key_up", 0, None, None, Some(ClassAttributeKeyString))}

\* the timelines the playback starts from
PlayedTimelines ==
    {<<e>> : e \in PlayedEvents} \cup {<<e1, e2>> : e1, e2 \in PlayedEvents}

\* Idle, with a timeline loaded earlier
PlayInit ==
    /\ is_recording = FALSE
    /\ is_playing = FALSE
    /\ stop_playback = FALSE
    /\ last_event_time = None
    /\ events \in PlayedTimelines
    /\ mouse_listener = FALSE
    /\ kb_record_listener = FALSE
    /\ clock = 0
    /\ ctl = "idle"
    /\ cb = [l \in Listeners |-> IdleCallback]
    /\ th = [t \in Threads |-> NoThread]
    /\ pending_done = 0
    /\ reply = NoReply
    /\ requests = 0
    /\ stop_len = 0
    /\ injected = <<>>
    /\ snapshot = <<>>
    /\ hist = NoHist
    /\ file = None
    /\ saved = <<>>
    /\ captured = None

thread_start_played(t) ==
    \E st \in PlaySpeedTexts, lt \in LoopTexts : thread_read(t, st, lt)

PlayNext ==
    \/ play_macro
    \/ on_esc
    \/ playback_done
    \/ \E t \in Threads :
          \/ thread_start_played(t)
          \/ thread_next(t)
          \/ thread_check1(t)
          \/ thread_sleep(t)
          \/ thread_chunk_check(t)
          \/ thread_chunk_sleep(t)
          \/ thread_check2(t)
          \/ thread_exec(t)
          \/ thread_exec_fails(t)
          \/ thread_outer_check(t)
          \/ thread_post(t)

PlaySpec == PlayInit /\ [][PlayNext]_vars

-----------------------------------------------------------------------------
(* Next-state relation *)

Control ==
    \/ toggle_recording
    \/ stop_recording_pop
    \/ on_esc
    \/ play_macro
    \/ playback_done

Edit ==
    \/ clear_events
    \/ delete_selected
    \/ update_selected_delay
    \/ add_delay_to_selected
    \/ load_macro

Capture ==
    \/ \E button \in Buttons, pressed \in BOOLEAN : on_mouse_click(button, pressed)
    \/ \E key \in PressedKeys : on_press(key)
    \/ \E key \in PressedKeys : on_release(key)
    \/ \E l \in Listeners : get_delay_read(l)
    \/ \E l \in Listeners : get_delay_write(l)
    \/ \E l \in Listeners : append_event(l)

Playback ==
    \E t \in Threads :
        \/ thread_start(t)
        \/ thread_next(t)
        \/ thread_check1(t)
        \/ thread_sleep(t)
        \/ thread_chunk_check(t)
        \/ thread_chunk_sleep(t)
        \/ thread_check2(t)
        \/ thread_exec(t)
        \/ thread_exec_fails(t)
        \/ thread_outer_check(t)
        \/ thread_post(t)

Next == Control \/ Edit \/ Capture \/ Playback

Spec == Init /\ [][Next]_vars

\* the Tk main loop runs the handlers queued with it, and a started thread runs on
Fairness ==
    /\ WF_vars(Playback)
    /\ WF_vars(playback_done)
    /\ WF_vars(stop_recording_pop)

FairSpec == Spec /\ Fairness

-----------------------------------------------------------------------------
(* Properties *)

Recording == is_recording
Playing == is_playing

LiveThreads == {t \in Threads : th[t].pc # "none"}

\* a request to one of the four editing operations
EditRequest ==
    \/ clear_events
    \/ delete_selected
    \/ update_selected_delay
    \/ add_delay_to_selected

\* C1: delete, update_delay, add_delay and clear, requested while Recording or
\* Playing, answer "Busy" and leave the timeline as it was.
C1_EditsRejectedWhileBusy ==
    [][((is_recording \/ is_playing) /\ EditRequest)
         => (events' = events /\ reply' = BusyEdit)]_vars

\* C1 witness: during playback of a non-empty timeline a request was answered
\* with the editing handlers' Busy dialog.
C1_Witness == is_playing /\ events # <<>> /\ reply = BusyEdit

\* C2: stop_recording leaves the timeline one event shorter than it was when the
\* stop was requested (and empty when it was empty), whatever the capture
\* callbacks do meanwhile.
C2_StopDropsOneFromRequest ==
    [][stop_recording_pop
         => Len(events') = (IF stop_len = 0 THEN 0 ELSE stop_len - 1)]_vars

\* C3: a capture callback appends to the timeline only while Recording.
C3_AppendOnlyWhileRecording ==
    [][(\E l \in Listeners : append_event(l)) => is_recording]_vars

\* C4: while Playing the timeline is what it was when play was accepted.
C4_TimelineFrozenWhilePlaying == is_playing => events = snapshot

\* C5: at most one playback thread is alive.
C5_AtMostOneThread == Cardinality(LiveThreads) <= 1

\* C5 witness: Playing with a playback thread in the middle of an event, the state
\* in which a further play request has to be refused.
C5_Witness ==
    /\ \E t \in Threads : th[t].pc = "exec"
    /\ pending_done = 0
    /\ is_playing

\* C6: the recording flag and the playing flag are never both true.
C6_NotRecordingAndPlaying == ~(is_recording /\ is_playing)

\* C6 witness: Playing is entered after a recording session that captured events.
C6_Witness == is_playing /\ ~is_recording /\ ~IsNone(last_event_time)

\* C7: once the playback thread has seen the cancel flag set it injects no further
\* action and starts no further event or pass: it only ends.
C7_NothingAfterCancelSeen ==
    [][hist.seen
         => /\ ~(\E t \in Threads : thread_exec(t))
            /\ Len(injected') <= Len(injected)
            /\ \A t \in Threads : th'[t].pc \in {"outer_check", "post", "none"}]_vars

\* C7 witness: a playback of two passes ended by a cancel seen in the first pass,
\* after an action had been injected.
C7_Witness ==
    /\ hist.seen
    /\ pending_done = 1
    /\ hist.loops = 2
    /\ Len(injected) = 1

\* C8: when cancel is requested during a chunked wait, the thread sleeps at most
\* one more chunk, injects nothing more and goes on to end.
C8_CancelledWithinOneChunk ==
    hist.set_in_chunked
        => /\ hist.slept <= MIN_SLEEP_CHUNK * hist.rate
           /\ hist.acts = 0
           /\ \A t \in Threads :
                 th[t].pc \in {"chunk_check", "chunk_sleep", "check2",
                               "outer_check", "post", "none"}

\* C8 witness: cancel came during a chunked wait, one chunk was slept after it and
\* the playback ended with most of the wait not slept.
C8_Witness ==
    /\ hist.set_in_chunked
    /\ hist.slept = MIN_SLEEP_CHUNK * hist.rate
    /\ pending_done = 1
    /\ injected = <<>>

\* C9: under fair scheduling of the playback thread and the control thread,
\* Playing is always eventually followed by Idle.
C9_PlayingLeadsToIdle == is_playing ~> ~is_playing

\* the action an event stands for
IntendedAction(ev) ==
    IF ev.type = "mouse_click"
    THEN [act |-> "click", x |-> ev.x, y |-> ev.y, key |-> None]
    ELSE [act |-> IF ev.type = "key_down" THEN "press" ELSE "release",
          x |-> None, y |-> None,
          key |-> IF IsNone(ev.key) THEN None ELSE decode_key(Val(ev.key))]

RECURSIVE Passes(_, _)
Passes(acts, n) == IF n = 0 THEN <<>> ELSE acts \o Passes(acts, n - 1)

\* C10: absent cancellation a playback of n events with loop count L injects the
\* L*n actions of the timeline it was started on, pass after pass.
C10_InjectsEveryPass ==
    (pending_done > 0 /\ ~stop_playback)
        => injected = Passes([i \in 1..Len(snapshot) |-> IntendedAction(snapshot[i])],
                             hist.loops)

\* the engine state of the specification: Idle, Recording or Playing
EngineState ==
    IF is_playing THEN "Playing" ELSE IF is_recording THEN "Recording" ELSE "Idle"

\* C11: a play request enters Playing (with the cancel flag reset) only from Idle
\* with a non-empty timeline; with an empty timeline, while Recording or while
\* Playing it changes neither the state, the cancel flag nor the timeline.
C11_PlayOnlyFromIdleNonEmpty ==
    [][play_macro
         => IF events # <<>> /\ EngineState = "Idle"
            THEN EngineState' = "Playing" /\ ~stop_playback' /\ events' = events
            ELSE /\ EngineState' = EngineState
                 /\ is_recording' = is_recording
                 /\ is_playing' = is_playing
                 /\ stop_playback' = stop_playback
                 /\ events' = events
                 /\ th' = th]_vars

\* C11 witness: a play request was refused while Recording a non-empty timeline.
C11_Witness == reply = BusyRecording /\ is_recording /\ events # <<>>

\* C12: the cancel flag is false in the state that enters Playing and false in
\* every state that is not Playing.
C12_CancelFlagOnlyWhilePlaying ==
    /\ (~is_playing => ~stop_playback)
    /\ [][/\ (~is_playing' => ~stop_playback')
          /\ ((~is_playing /\ is_playing') => ~stop_playback')]_vars

\* C12 witness: a cancel request came late in a playback, after the thread had
\* ended without seeing it and before playback_done ran.
C12_Witness ==
    /\ is_playing /\ stop_playback
    /\ LiveThreads = {} /\ pending_done = 1
    /\ ~hist.seen

\* is a proper prefix: everything but the last element
IsButLast(short, long) ==
    /\ Len(short) = Len(long) - 1
    /\ \A i \in 1..Len(short) : short[i] = long[i]

\* C13: a cancel request while Playing sets the cancel flag and leaves the engine
\* state alone; a cancel request while Recording ends the recording, and the stop
\* it runs drops the trailing event of the timeline.
C13_CancelRequest ==
    [][/\ (on_esc /\ is_playing)
            => (stop_playback' /\ is_playing' /\ is_recording' = is_recording
                /\ events' = events /\ th' = th /\ pending_done' = pending_done)
       /\ (on_esc /\ is_recording)
            => (~is_recording' /\ ~is_playing' /\ ctl' = "stop_pop")
       /\ stop_recording_pop
            => (/\ ~is_recording' /\ ~is_playing'
                /\ IF events = <<>> THEN events' = <<>>
                                    ELSE IsButLast(events', events))]_vars

\* C13 witness: the cancel flag was set while the playback thread was between two
\* events.
C13_Witness ==
    /\ is_playing /\ stop_playback
    /\ \E t \in Threads : th[t].pc = "iter" /\ th[t].idx = 1

\* C14: every event of the timeline has delay_before >= 0.
C14_DelaysNonNegative == \A i \in 1..Len(events) : events[i].delay_before >= 0

\* max(0, n)
AtLeastZero(n) == IF n < 0 THEN 0 ELSE n

\* C15: in Idle an add_delay of delta on a selection sets delay_before of every
\* selected in-range event to max(0, old + delta), leaves the other events and the
\* length of the timeline alone, and changes nothing when delta = 0.
C15_AddDelayClamps ==
    [][\A selection \in Selections, text \in DelayTexts :
          (/\ EngineState = "Idle" /\ ctl = "idle"
           /\ selection # {} /\ text.kind = "num"
           /\ add_delay(selection, text))
          => /\ Len(events') = Len(events)
             /\ \A i \in 1..Len(events) :
                   events'[i] =
                      IF (i - 1) \in selection
                      THEN [events[i] EXCEPT
                              !.delay_before = AtLeastZero(events[i].delay_before + text.v)]
                      ELSE events[i]
             /\ (text.v = 0 => events' = events)]_vars

-----------------------------------------------------------------------------
(* Properties of the file operations *)

KnownTypes == {"mouse_click", "key_down", "key_up"}

\* the type an item is read with
TypeOf(item) == IF IsNone(item.type) THEN "mouse_click" ELSE Val(item.type)

IsNumeric(v) == v.t = "num" \/ (v.t = "str" /\ IsIntString(v.s))

\* an item with a missing or malformed field
BadItem(item) ==
    \/ ~item.dict
    \/ ~IsNone(item.delay_before) /\ ~IsNumeric(Val(item.delay_before))
    \/ /\ TypeOf(item) = "mouse_click"
       /\ \/ IsNone(item.x) \/ IsNone(item.y)
          \/ ~IsNumeric(Val(item.x)) \/ ~IsNumeric(Val(item.y))
    \/ TypeOf(item) \in {"key_down", "key_up"} /\ IsNone(item.key)

\* a document whose events is not an array or holds a bad item
BadDoc(doc) ==
    \/ IsNone(doc.events)
    \/ \E i \in 1..Len(Val(doc.events)) : BadItem(Val(doc.events)[i])

\* C16: a load of a document whose events is not an array, or that holds an item
\* with a missing or malformed field, fails and leaves the timeline and the engine
\* state as they were.
C16_FailedLoadChangesNothing ==
    [][\A doc \in FileDocs \cup SavedDocs :
          (EngineState = "Idle" /\ ctl = "idle" /\ BadDoc(doc) /\ load_file(doc))
          => /\ reply' = LoadError
             /\ events' = events
             /\ EngineState' = EngineState
             /\ stop_playback' = stop_playback
             /\ last_event_time' = last_event_time]_vars

\* C16 witness: a load failed on top of a non-empty timeline.
C16_Witness == reply = LoadError /\ events # <<>> /\ EngineState = "Idle"

\* the items of a document with the item at position k left out
Without(items, k) == SubSeq(items, 1, k - 1) \o SubSeq(items, k + 1, Len(items))

\* item k is the only item of unknown type, and the other items are well formed
OnlyUnknown(items, k) ==
    /\ items[k].dict /\ TypeOf(items[k]) \notin KnownTypes
    /\ \A i \in 1..Len(items) :
          i # k => (~BadItem(items[i]) /\ TypeOf(items[i]) \in KnownTypes)

\* C17: loading a document with one item of unknown type yields the timeline of
\* the other items, in document order, whatever the other fields of that item.
C17_UnknownTypeSkipped ==
    [][\A doc \in FileDocs :
          (EngineState = "Idle" /\ ctl = "idle" /\ ~IsNone(doc.events)
           /\ load_file(doc))
          => \A k \in 1..Len(Val(doc.events)) :
                OnlyUnknown(Val(doc.events), k)
                => /\ reply' # LoadError
                   /\ events' = ParseItems(Without(Val(doc.events), k)).evs]_vars

\* a key string of a printable character or of a named special key
PrintableOrSpecial(key) ==
    \/ Len(key) = 1
    \/ startswith(key, KeyPrefix) /\ ~IsNone(decode_key(key))

\* the events the round trip is claimed for
RoundTrips(ev) ==
    \/ ev.type = "mouse_click" /\ ~IsNone(ev.x) /\ ~IsNone(ev.y)
    \/ /\ ev.type \in {"key_down", "key_up"}
       /\ ~IsNone(ev.key) /\ PrintableOrSpecial(Val(ev.key))

\* C18: loading the file save_macro wrote yields the timeline it was saved from,
\* for timelines of clicks and of key events of printable or special keys.
C18_SaveLoadRoundTrip ==
    [][(/\ ~IsNone(file) /\ EngineState = "Idle" /\ ctl = "idle"
        /\ \A i \in 1..Len(saved) : RoundTrips(saved[i])
        /\ load_file(Val(file)))
       => events' = saved]_vars

-----------------------------------------------------------------------------
(* Properties of capture *)

\* the key strings of the three control hotkeys
HotkeyStrings == {encode_key(Key_f9), encode_key(Key_f10), encode_key(Key_esc)}

\* C19: the timeline holds no key_down or key_up event of F9, F10 or Esc,
\* whatever keys are pressed and released during recording.
C19_HotkeysNotCaptured ==
    \A i \in 1..Len(events) :
        (events[i].type \in {"key_down", "key_up"} /\ ~IsNone(events[i].key))
        => Val(events[i].key) \notin HotkeyStrings

\* C19 witness: a recording session in which key presses and releases were
\* captured.
C19_Witness ==
    /\ is_recording
    /\ Len(events) = 2
    /\ events[1].type = "key_down" /\ events[2].type = "key_up"

\* C20: while recording, the delay_before a captured event is appended with is its
\* capture time minus the capture time of the event before it in the timeline, and
\* 0 for the first event of the session.
C20_DelayIsTimeSincePrevious ==
    [][\A l \in Listeners :
          (is_recording /\ append_event(l))
          => events'[Len(events')].delay_before
               = (IF IsNone(captured) THEN 0 ELSE cb[l].now - Val(captured))]_vars

\* the playback thread ended by an exception: the engine is still in Playing, no
\* thread is running and no playback_done is queued
InjectionFailed == is_playing /\ LiveThreads = {} /\ pending_done = 0

\* C21: when injecting an event's action fails during playback, the state
\* returns to Idle (where play, start-recording and edit requests are accepted).
C21_FailedInjectionLeadsToIdle == InjectionFailed ~> (EngineState = "Idle")

\* C22: a start-record request is accepted only when the state is not Playing;
\* accepted, it empties the timeline and resets last_event_time, and the first
\* event of the session's timeline has delay_before 0; a start or toggle request
\* while Playing changes nothing.
C22_StartRecordingStartsAfresh ==
    /\ []((is_recording /\ events # <<>>) => events[1].delay_before = 0)
    /\ [][toggle_recording
            => IF is_playing
               THEN /\ EngineState' = EngineState
                    /\ is_recording' = is_recording
                    /\ stop_playback' = stop_playback
                    /\ events' = events
                    /\ last_event_time' = last_event_time
                    /\ th' = th
               ELSE ~is_recording
                    => (is_recording' => /\ EngineState' = "Recording"
                                         /\ events' = <<>>
                                         /\ last_event_time' = None)]_vars

\* the value of a speed text is a number or an infinity (not nan)
IsNumber(text) == text.num # 0 \/ text.den # 0

\* the speed and the loop count of the claim for the texts st and lt: a value <= 0
\* is replaced by 1
SanitisedSpeed(st) ==
    IF st.den > 0 /\ st.num <= 0 THEN [num |-> 1, den |-> 1]
    ELSE [num |-> st.num, den |-> st.den]
SanitisedLoops(lt) == IF lt.n <= 0 THEN 1 ELSE lt.n

\* C23: absent cancellation the executor has slept d / s in all before it
\* executes an event with delay_before d > 0, s being the speed read once at the
\* start of the playback with s <= 0 replaced by 1.0, in one sleep or in chunks of
\* at most 0.02 s; a loop count <= 0 is replaced by 1.  (The thread keeps s as
\* speed_num / speed_den and counts sleeps in units of 0.02 s / speed_num.)
C23_WaitIsScaledDelay ==
    /\ [](\A t \in Threads :
             (th[t].pc = "exec" /\ Val(th[t].ev).delay_before > 0)
             => /\ IsNumber([num |-> th[t].speed_num, den |-> th[t].speed_den])
                /\ hist.waited = Val(th[t].ev).delay_before * th[t].speed_den)
    /\ [][\A t \in Threads :
             /\ \A st \in PlaySpeedTexts, lt \in LoopTexts :
                   (st.ok /\ lt.ok /\ thread_read(t, st, lt))
                   => /\ th'[t].speed_num = SanitisedSpeed(st).num
                      /\ th'[t].speed_den = SanitisedSpeed(st).den
                      /\ th'[t].loops = SanitisedLoops(lt)
             /\ (th[t].pc \notin {"none", "start"} /\ th'[t].pc # "none")
                => /\ th'[t].speed_num = th[t].speed_num
                   /\ th'[t].speed_den = th[t].speed_den
                   /\ th'[t].loops = th[t].loops
             /\ thread_chunk_sleep(t)
                => hist'.waited - hist.waited <= MIN_SLEEP_CHUNK * th[t].speed_num
             /\ thread_sleep(t)
                => hist'.waited - hist.waited <= SMALL_WAIT_THRESHOLD * th[t].speed_num]_vars

\* the positions (from 1) of evs that are not selected
KeptPositions(evs, sel) == {i \in 1..Len(evs) : (i - 1) \notin sel}

\* the events of evs at the positions that are not selected, in their order
Kept(evs, sel) ==
    LET K == KeptPositions(evs, sel)
    IN  [k \in 1..Cardinality(K) |->
            evs[CHOOSE i \in K : Cardinality({j \in K : j <= i}) = k]]

\* C24: in Idle, delete(indices) removes exactly the events at the in-range
\* positions of indices, positions taken in the timeline as it was before the
\* call, keeps the other events in their order and ignores out-of-range positions.
C24_DeleteRemovesSelected ==
    [][\A selection \in Selections :
          (/\ EngineState = "Idle" /\ ctl = "idle"
           /\ selection # {}
           /\ delete_rows(selection))
          => events' = Kept(events, selection)]_vars

\* C24 witness: the first row of a recorded timeline of two events was deleted.
C24_Witness ==
    /\ EngineState = "Idle" /\ requests = 1 /\ IsNone(file)
    /\ events = <<MacroEvent("key_up", -1, None, None, Some(encode_key(Key_shift)))>>

\* a key event whose key string does not stand for a key that can be injected
Unresolved(ev) ==
    IF ev.type \in {"key_down", "key_up"} /\ ~IsNone(ev.key)
    THEN LET k == decode_key(Val(ev.key))
         IN  IF IsNone(k) THEN TRUE ELSE Val(k).kind \notin {"special", "keycode"}
    ELSE FALSE

\* C25: during playback a key event whose key string cannot be resolved has had
\* its wait when its turn to be executed comes, its action is skipped, and the
\* executor goes on to the next event of the pass.
C25_UnresolvedKeySkipped ==
    /\ [](\A t \in Threads :
             (th[t].pc = "exec" /\ Unresolved(Val(th[t].ev)))
             => hist.waited = TotalWait(Val(th[t].ev), th[t].speed_den))
    /\ [][\A t \in Threads :
             (th[t].pc = "exec" /\ Unresolved(Val(th[t].ev)) /\ th'[t] # th[t])
             => /\ injected' = injected
                /\ th'[t] = [th[t] EXCEPT !.pc = "iter"]]_vars

\* C26: once the control thread has set the cancel flag during a playback, the
\* executor injects at most one more action, that of an event whose check before
\* the action had already passed, and the flag stays set until the executor has
\* finished.
C26_AtMostOneActionAfterCancel ==
    /\ [](hist.acts <= 1)
    /\ [][/\ \A t \in Threads :
               (stop_playback /\ th[t].pc = "check2") => th'[t].pc # "exec"
          /\ (stop_playback /\ LiveThreads # {}) => stop_playback']_vars

\* C26 witness: the flag was set after the check before an action had passed, and
\* that one action was injected under the set flag.
C26_Witness == is_playing /\ stop_playback /\ hist.acts = 1 /\ injected # <<>>

=============================================================================
